---- MODULE Spec2Model ----
(***************************************************************************)
(* uvld: a composable runtime schema validator.  A schema is a closure     *)
(* (value, path, origin) -> Issue[]; the closures of the library are       *)
(* modelled as records (the captured arguments of the constructor) and the *)
(* call of a closure as the operator Validate, which dispatches to one     *)
(* operator per constructor of the source, named as in the source.         *)
(***************************************************************************)
EXTENDS Integers, Sequences, FiniteSets, TLC

VARIABLES op, schema, value, path, origin, result, raised, stack, calls

vars == <<op, schema, value, path, origin, result, raised, stack, calls>>

(***************************************************************************)
(* Bounds of the checked universe.                                         *)
(***************************************************************************)
MaxLen == 2
MaxKeys == 2
MaxAlts == 2
TreeDepth == 3

(***************************************************************************)
(* JavaScript values.  k is the runtime kind of the value.                 *)
(***************************************************************************)
Undefined == [k |-> "undefined"]
Null == [k |-> "null"]
Bool(b) == [k |-> "boolean", b |-> b]
Num(n) == [k |-> "number", n |-> n]
Str(s) == [k |-> "string", s |-> s]
Arr(items) == [k |-> "array", items |-> items]
SetOf(items) == [k |-> "set", items |-> items]
MapOf(keys, vals) == [k |-> "map", keys |-> keys, vals |-> vals]
Obj(keys, vals) == [k |-> "object", keys |-> keys, vals |-> vals]
\* Symbol(): a primitive that converts neither to a number nor to a string
SymbolOf(d) == [k |-> "symbol", d |-> d]

\* typeof value
typeof(v) ==
  CASE v.k = "undefined" -> "undefined"
    [] v.k = "boolean" -> "boolean"
    [] v.k = "number" -> "number"
    [] v.k = "string" -> "string"
    [] v.k = "symbol" -> "symbol"
    [] OTHER -> "object"

\* Array.isArray(value)
isArray(v) == v.k = "array"

\* value instanceof Set, value instanceof Map
isSet(v) == v.k = "set"
isMap(v) == v.k = "map"

\* value !== null && typeof value === "object" && !Array.isArray(value)
isPlainObject(v) == v.k # "null" /\ typeof(v) = "object" /\ ~isArray(v)

\* Object.keys(value): the own enumerable keys, in insertion order.  A Set or
\* a Map has none.
ObjectKeys(v) == IF v.k = "object" THEN v.keys ELSE <<>>

\* value[key]: undefined when the key is absent.
Get(v, key) ==
  IF v.k = "object" /\ \E i \in 1..Len(v.keys) : v.keys[i] = key
  THEN v.vals[CHOOSE i \in 1..Len(v.keys) : v.keys[i] = key]
  ELSE Undefined

\* [...value] of a Set, value of an array: the members in iteration order.
Items(v) == v.items

\* Array.prototype.includes
Includes(seq, x) == \E i \in 1..Len(seq) : seq[i] = x

\* Array.prototype.join
RECURSIVE Join(_, _)
Join(seq, sep) ==
  IF seq = <<>> THEN ""
  ELSE IF Len(seq) = 1 THEN seq[1]
  ELSE seq[1] \o sep \o Join(Tail(seq), sep)

\* Array.prototype.flat on a list of lists
RECURSIVE Flat(_)
Flat(lists) == IF lists = <<>> THEN <<>> ELSE lists[1] \o Flat(Tail(lists))

\* `${path}${path ? '.' : ''}${key}`
KeyPath(p, key) == p \o (IF p # "" THEN "." ELSE "") \o key

\* `${path}[${index}]`, index counted from 0
IndexPath(p, i) == p \o "[" \o ToString(i - 1) \o "]"


\* Array.prototype.flatMap, the callback receiving (element, index)
flatMap(f(_, _), seq) == Flat([i \in 1..Len(seq) |-> f(seq[i], i)])

(***************************************************************************)
(* Schemas: the closures returned by the constructors, as records of what   *)
(* each closure captures.  t names the constructor.                         *)
(***************************************************************************)
MkLeaf(t, message, validations) ==
  [t |-> t, message |-> message, validations |-> validations]
MkString(message, validations) == MkLeaf("string", message, validations)
MkBoolean(message, validations) == MkLeaf("boolean", message, validations)
MkNumber(message, validations) == MkLeaf("number", message, validations)
MkNever(message, validations) == MkLeaf("never", message, validations)
MkAny(message, validations) == MkLeaf("any", message, validations)
MkUnknown(message, validations) == MkLeaf("unknown", message, validations)
MkNullish(message, validations) == MkLeaf("nullish", message, validations)
MkLiteral(v, message, validations) ==
  [t |-> "literal", v |-> v, message |-> message, validations |-> validations]
MkEnums(values, message, validations) ==
  [t |-> "enums", values |-> values, message |-> message,
   validations |-> validations]
MkOptional(s, message, validations) ==
  [t |-> "optional", schema |-> s, message |-> message,
   validations |-> validations]
MkNullable(s, message, validations) ==
  [t |-> "nullable", schema |-> s, message |-> message,
   validations |-> validations]
\* a validation written by the user of the library:
\* (value, path) => validate(value) || [{ message, ..., path }]
MkCheck(validate, message) ==
  [t |-> "check", validate |-> validate, message |-> message]
MkCustom(validate, message, validations) ==
  [t |-> "custom", validate |-> validate, message |-> message,
   validations |-> validations]
MkRecord(keySchema, valueSchema, message, validations) ==
  [t |-> "record", keySchema |-> keySchema, valueSchema |-> valueSchema,
   message |-> message, validations |-> validations]
MkMap(keySchema, valueSchema, message, validations) ==
  [t |-> "map", keySchema |-> keySchema, valueSchema |-> valueSchema,
   message |-> message, validations |-> validations]
MkArray(s, message, validations) ==
  [t |-> "array", schema |-> s, message |-> message,
   validations |-> validations]
MkSet(s, message, validations) ==
  [t |-> "set", schema |-> s, message |-> message,
   validations |-> validations]
\* fields: the schema object {key: validator}, as the list of its entries in
\* Object.keys order
Field(key, s) == [key |-> key, schema |-> s]
MkObject(fields, message, validations, exact) ==
  [t |-> "object", fields |-> fields, message |-> message,
   validations |-> validations, exact |-> exact]
MkStrict(fields, message, validations) ==
  MkObject(fields, message, validations, TRUE)
MkTuple(schemas, message, validations) ==
  [t |-> "tuple", schemas |-> schemas, message |-> message,
   validations |-> validations]
\* args: the rest arguments after minValue / maxValue
MkMin(minValue, args) == [t |-> "min", n |-> minValue, args |-> args]
MkMax(maxValue, args) == [t |-> "max", n |-> maxValue, args |-> args]
MkOr(schemas) == [t |-> "or", schemas |-> schemas]
MkAnd(schemas) == [t |-> "and", schemas |-> schemas]
\* resolveSchema: the name of the thunk, resolved by Resolve at call time
MkLazy(resolveSchema) == [t |-> "lazy", resolveSchema |-> resolveSchema]
MkTransform(s, transformer) ==
  [t |-> "transform", schema |-> s, transformer |-> transformer]
MkNot(s, message) == [t |-> "not", schema |-> s, message |-> message]

\* The anonymous child-recursion closures the composite constructors put at
\* the head of their validations list.
RecordEntries(keySchema, valueSchema) ==
  [t |-> "recordEntries", keySchema |-> keySchema, valueSchema |-> valueSchema]
MapEntries(keySchema, valueSchema) ==
  [t |-> "mapEntries", keySchema |-> keySchema, valueSchema |-> valueSchema]
ArrayItems(s) == [t |-> "arrayItems", schema |-> s]
SetItems(s) == [t |-> "setItems", schema |-> s]
ObjectFields(fields, exact) ==
  [t |-> "objectFields", fields |-> fields, exact |-> exact]
TupleItems(schemas) == [t |-> "tupleItems", schemas |-> schemas]

(***************************************************************************)
(* Issues.                                                                 *)
(***************************************************************************)
Issue(message, expected, received, p, o) ==
  [message |-> message, expected |-> expected, received |-> received,
   path |-> p, origin |-> o]


(***************************************************************************)
(* User-supplied functions: predicates of custom, transformers of           *)
(* transform, thunks of lazy.                                               *)
(***************************************************************************)
\* custom(value => value === undefined, ...), custom(value => value >= 5, ...)
CustomPredicate(validate, v) ==
  CASE validate = "isUndefined" -> v.k = "undefined"
    [] validate = "atLeast5" -> v.k = "number" /\ v.n >= 5
    [] OTHER -> FALSE

\* transformers: v => [v], v => typeof v
ApplyTransformer(transformer, v) ==
  CASE transformer = "wrap" -> Arr(<<v>>)
    [] transformer = "typeof" -> Str(typeof(v))
    [] OTHER -> v

\* const Node = object({ id: number(), children: lazy(() => array(Node)) })
Node ==
  MkObject(<<Field("id", MkNumber("", <<>>)),
             Field("children", MkLazy("arrayOfNode"))>>, "", <<>>, FALSE)

\* resolveSchema(): the schema a thunk returns
Resolve(resolveSchema) ==
  CASE resolveSchema = "string" -> MkString("", <<>>)
    [] resolveSchema = "arrayOfNode" -> MkArray(Node, "", <<>>)
    [] resolveSchema = "loop" -> MkLazy("loop")
    [] resolveSchema = "orLoop" ->
         MkOr(<<MkString("", <<>>), MkLazy("orLoop")>>)
    [] resolveSchema = "optionalLoop" ->
         MkOptional(MkLazy("optionalLoop"), "", <<>>)
    [] resolveSchema = "notLoop" -> MkNot(MkLazy("notLoop"), "")
    [] resolveSchema = "wrapLoop" ->
         MkArray(MkTransform(MkLazy("wrapLoop"), "wrap"), "", <<>>)
    [] resolveSchema = "json" ->
         MkOr(<<MkNumber("", <<>>), MkString("", <<>>),
                MkArray(MkLazy("json"), "", <<>>),
                MkRecord(MkString("", <<>>), MkLazy("json"), "", <<>>)>>)
    [] resolveSchema = "min" -> MkMin(3, <<>>)
    [] resolveSchema = "pair" ->
         MkOptional(MkTuple(<<MkNumber("", <<>>), MkLazy("pair")>>, "", <<>>),
                    "", <<>>)

(***************************************************************************)
(* The validators.  Validate(s, v, p, o) is the call s(v, p, o) of a        *)
(* closure; a call that passes fewer arguments takes the defaults of the    *)
(* closure's parameters, path = "" and origin = "value".                    *)
(***************************************************************************)
RECURSIVE Validate(_, _, _, _)

\* schema(value, path)
Call2(s, v, p) == Validate(s, v, p, "value")

\* schema(value)
Call1(s, v) == Validate(s, v, "", "value")

\* a validation of the user: true when the value passes, the list of its one
\* issue otherwise; flatMap keeps a result that is no array as it is
check(validate, message, v, p) ==
  IF CustomPredicate(validate, v) THEN <<Bool(TRUE)>>
  ELSE <<Issue(message, "check", v, p, "value")>>

\* a faulty define: the validations stop at the first entry that reports an
\* issue
define_shortCircuit(type, ok, message, validations, v, p, o) ==
  IF ~ok
  THEN <<Issue(IF message # "" THEN message
               ELSE "Expected " \o type \o ", received " \o typeof(v),
               type, v, p, o)>>
  ELSE LET found(i) == SelectSeq(Call2(validations[i], v, p),
                                 LAMBDA r : r # Bool(TRUE))
           failing == {i \in 1..Len(validations) : found(i) # <<>>}
       IN IF failing = {} THEN <<>>
          ELSE found(CHOOSE i \in failing : \A j \in failing : i <= j)

\* define(type, validate)(message, validations)(value, path, origin), ok being
\* validate(value)
define(type, ok, message, validations, v, p, o) ==
  IF ~ok
  THEN <<Issue(IF message # "" THEN message
               ELSE "Expected " \o type \o ", received " \o typeof(v),
               type, v, p, o)>>
  ELSE SelectSeq(flatMap(LAMBDA f, i : Call2(f, v, p), validations),
                 LAMBDA r : r # Bool(TRUE))

\* The predicates the leaf constructors hand to define.
isString(v) == typeof(v) = "string"
isBoolean(v) == typeof(v) = "boolean"
isNumber(v) == typeof(v) = "number"
isNullish(v) == v.k = "null" \/ v.k = "undefined"
\* value === v
StrictEquals(v, w) == v.k = w.k /\ v = w
\* values.includes(value)
isOneOf(values, v) == \E i \in 1..Len(values) : StrictEquals(v, values[i])

string(message, validations, v, p, o) ==
  define("string", isString(v), message, validations, v, p, o)
boolean(message, validations, v, p, o) ==
  define("boolean", isBoolean(v), message, validations, v, p, o)
number(message, validations, v, p, o) ==
  define("number", isNumber(v), message, validations, v, p, o)
never(message, validations, v, p, o) ==
  define("never", FALSE, message, validations, v, p, o)
any(message, validations, v, p, o) ==
  define("any", TRUE, message, validations, v, p, o)
unknown(message, validations, v, p, o) ==
  define("unknown", TRUE, message, validations, v, p, o)
nullish(message, validations, v, p, o) ==
  define("nullish", isNullish(v), message, validations, v, p, o)
literal(lit, message, validations, v, p, o) ==
  define("literal", StrictEquals(v, lit), message, validations, v, p, o)
enums(values, message, validations, v, p, o) ==
  define("enums", isOneOf(values, v), message, validations, v, p, o)
optional(s, message, validations, v, p, o) ==
  define("optional", v.k = "undefined" \/ Len(Call1(s, v)) = 0,
         message, validations, v, p, o)
nullable(s, message, validations, v, p, o) ==
  define("nullable", v.k = "null" \/ Len(Call1(s, v)) = 0,
         message, validations, v, p, o)
custom(validate, message, validations, v, p, o) ==
  define("", CustomPredicate(validate, v), message, validations, v, p, o)


\* record's child closure: every own entry, the key against keySchema with
\* origin 'key' and the value against valueSchema, at the same path
recordEntries(keySchema, valueSchema, v, p) ==
  flatMap(LAMBDA key, i :
            Validate(keySchema, Str(key), KeyPath(p, key), "key")
            \o Call2(valueSchema, Get(v, key), KeyPath(p, key)),
          ObjectKeys(v))
record(keySchema, valueSchema, message, validations, v, p, o) ==
  define("record", isPlainObject(v), message,
         <<RecordEntries(keySchema, valueSchema)>> \o validations, v, p, o)

\* map's child closure: the entries in iteration order, at path[index]
mapEntries(keySchema, valueSchema, v, p) ==
  flatMap(LAMBDA key, i :
            Validate(keySchema, key, IndexPath(p, i), "key")
            \o Call2(valueSchema, v.vals[i], IndexPath(p, i)),
          v.keys)
map(keySchema, valueSchema, message, validations, v, p, o) ==
  define("map", isMap(v), message,
         <<MapEntries(keySchema, valueSchema)>> \o validations, v, p, o)

\* array's child closure
arrayItems(s, v, p) ==
  flatMap(LAMBDA item, i : Call2(s, item, IndexPath(p, i)), Items(v))
array(s, message, validations, v, p, o) ==
  define("array", isArray(v), message, <<ArrayItems(s)>> \o validations,
         v, p, o)

\* set's child closure
setItems(s, v, p) ==
  flatMap(LAMBDA item, i : Call2(s, item, IndexPath(p, i)), Items(v))
set(s, message, validations, v, p, o) ==
  define("set", isSet(v), message, <<SetItems(s)>> \o validations, v, p, o)

\* Object.keys(schema)
SchemaKeys(fields) == [i \in 1..Len(fields) |-> fields[i].key]

\* a faulty child closure of object: the path of a field is its key alone,
\* the path of the parent is lost
objectFields_dropsParentPath(fields, exact, v, p) ==
  LET extraKeys ==
        IF exact
        THEN SelectSeq(ObjectKeys(v),
                       LAMBDA key : ~Includes(SchemaKeys(fields), key))
        ELSE <<>>
  IN IF Len(extraKeys) # 0
     THEN <<Issue("Unexpected keys found: " \o Join(extraKeys, ", "),
                  "object", v, p, "key")>>
     ELSE flatMap(LAMBDA f, i : Call2(f.schema, Get(v, f.key), f.key), fields)

\* the keys of the value the schema does not declare, when exact
ExtraKeys(fields, exact, v) ==
  IF exact
  THEN SelectSeq(ObjectKeys(v), LAMBDA key : ~Includes(SchemaKeys(fields), key))
  ELSE <<>>

\* object's child closure
objectFields(fields, exact, v, p) ==
  LET extraKeys == ExtraKeys(fields, exact, v)
  IN IF Len(extraKeys) # 0
     THEN <<Issue("Unexpected keys found: " \o Join(extraKeys, ", "),
                  "object", v, p, "key")>>
     ELSE flatMap(LAMBDA f, i : Call2(f.schema, Get(v, f.key), KeyPath(p, f.key)),
                  fields)
object(fields, message, validations, exact, v, p, o) ==
  define("object", isPlainObject(v), message,
         <<ObjectFields(fields, exact)>> \o validations, v, p, o)
\* a faulty strict: the exact flag is not passed on
strict_notExact(fields, message, validations, v, p, o) ==
  object(fields, message, validations, FALSE, v, p, o)

strict(fields, message, validations, v, p, o) ==
  object(fields, message, validations, TRUE, v, p, o)

\* a faulty child closure of tuple: only a shorter array is a length mismatch
tupleItems_acceptsLonger(schemas, v, p) ==
  IF Len(Items(v)) < Len(schemas)
  THEN <<[message |-> "Expected tuple of length " \o ToString(Len(schemas))
                      \o ", received " \o ToString(Len(Items(v))),
          expected |-> "tuple", received |-> Num(Len(Items(v))), path |-> p]>>
  ELSE flatMap(LAMBDA s, i : Call2(s, Items(v)[i], IndexPath(p, i)), schemas)

\* tuple's child closure; the length issue has no origin field
tupleItems(schemas, v, p) ==
  IF Len(Items(v)) # Len(schemas)
  THEN <<[message |-> "Expected tuple of length " \o ToString(Len(schemas))
                      \o ", received " \o ToString(Len(Items(v))),
          expected |-> "tuple", received |-> Num(Len(Items(v))), path |-> p]>>
  ELSE flatMap(LAMBDA s, i : Call2(s, Items(v)[i], IndexPath(p, i)), schemas)
\* a faulty tuple: the validations of the caller run before the child closure
tuple_validationsFirst(schemas, message, validations, v, p, o) ==
  define("tuple", isArray(v), message, validations \o <<TupleItems(schemas)>>,
         v, p, o)

tuple(schemas, message, validations, v, p, o) ==
  define("tuple", isArray(v), message, <<TupleItems(schemas)>> \o validations,
         v, p, o)

\* value >= bound and value <= bound of JavaScript for a value that is neither
\* an array nor a string, a Map or a Set: the value is converted to a number,
\* undefined and plain objects to NaN, which compares false with everything.
IsNumeric(v) == v.k \in {"number", "boolean", "null"}
ToNumber(v) ==
  CASE v.k = "number" -> v.n
    [] v.k = "boolean" -> IF v.b THEN 1 ELSE 0
    [] OTHER -> 0
\* value.length of an array or a string, value.size of a Map or a Set
IsSized(v) == v.k \in {"array", "string", "map", "set"}
Size(v) ==
  CASE v.k = "string" -> Len(v.s)
    [] v.k = "map" -> Len(v.keys)
    [] OTHER -> Len(v.items)
\* ...args of min / max are handed to define after the fixed message, so that
\* args[0] arrives as validations (default []) and args[1] is dropped.  Only
\* an array has entries to run.
RestValidations(args) ==
  IF Len(args) # 0 /\ args[1].k = "array" THEN args[1].items ELSE <<>>
\* a faulty predicate of min: a value without a length or a size violates
\* every bound
MinPredicate_sizedOnly(minValue, v) == IsSized(v) /\ Size(v) >= minValue

\* a faulty predicate of min: the bound itself is refused
MinPredicate_strict(minValue, v) ==
  IF IsSized(v) THEN Size(v) > minValue
  ELSE IsNumeric(v) /\ ToNumber(v) > minValue

MinPredicate(minValue, v) ==
  IF IsSized(v) THEN Size(v) >= minValue
  ELSE IsNumeric(v) /\ ToNumber(v) >= minValue
MaxPredicate(maxValue, v) ==
  IF IsSized(v) THEN Size(v) <= maxValue
  ELSE IsNumeric(v) /\ ToNumber(v) <= maxValue
min(minValue, args, v, p, o) ==
  define("min", MinPredicate(minValue, v), "Min " \o ToString(minValue),
         RestValidations(args), v, p, o)
max(maxValue, args, v, p, o) ==
  define("max", MaxPredicate(maxValue, v), "Max " \o ToString(maxValue),
         RestValidations(args), v, p, o)

or(schemas, v, p) ==
  LET issues == Flat([i \in 1..Len(schemas) |-> Call2(schemas[i], v, p)])
  IN IF Len(issues) = Len(schemas) THEN issues ELSE <<>>
\* a faulty and: it stops at the first schema that reports an issue
and_shortCircuit(schemas, v, p) ==
  LET failing == {i \in 1..Len(schemas) : Call2(schemas[i], v, p) # <<>>}
  IN IF failing = {} THEN <<>>
     ELSE Call2(schemas[CHOOSE i \in failing : \A j \in failing : i <= j], v, p)

and(schemas, v, p) == flatMap(LAMBDA s, i : Call2(s, v, p), schemas)
lazy(resolveSchema, v, p) == Call2(Resolve(resolveSchema), v, p)
transform(s, transformer, v) == Call1(s, ApplyTransformer(transformer, v))
is(s, v) == Len(Call1(s, v)) = 0
\* a faulty not: the negation is missing
not_notNegated(s, message, v, p, o) ==
  define("not", is(s, v), message, <<>>, v, p, o)

not(s, message, v, p, o) == define("not", ~is(s, v), message, <<>>, v, p, o)

\* The call of a closure: the body of the constructor that made it.
Validate(s, v, p, o) ==
  CASE s.t = "string" -> string(s.message, s.validations, v, p, o)
    [] s.t = "boolean" -> boolean(s.message, s.validations, v, p, o)
    [] s.t = "number" -> number(s.message, s.validations, v, p, o)
    [] s.t = "never" -> never(s.message, s.validations, v, p, o)
    [] s.t = "any" -> any(s.message, s.validations, v, p, o)
    [] s.t = "unknown" -> unknown(s.message, s.validations, v, p, o)
    [] s.t = "nullish" -> nullish(s.message, s.validations, v, p, o)
    [] s.t = "literal" -> literal(s.v, s.message, s.validations, v, p, o)
    [] s.t = "enums" -> enums(s.values, s.message, s.validations, v, p, o)
    [] s.t = "optional" -> optional(s.schema, s.message, s.validations, v, p, o)
    [] s.t = "nullable" -> nullable(s.schema, s.message, s.validations, v, p, o)
    [] s.t = "custom" -> custom(s.validate, s.message, s.validations, v, p, o)
    [] s.t = "record" ->
         record(s.keySchema, s.valueSchema, s.message, s.validations, v, p, o)
    [] s.t = "map" ->
         map(s.keySchema, s.valueSchema, s.message, s.validations, v, p, o)
    [] s.t = "array" -> array(s.schema, s.message, s.validations, v, p, o)
    [] s.t = "set" -> set(s.schema, s.message, s.validations, v, p, o)
    [] s.t = "object" /\ ~s.exact ->
         object(s.fields, s.message, s.validations, FALSE, v, p, o)
    [] s.t = "object" /\ s.exact ->
         strict(s.fields, s.message, s.validations, v, p, o)
    [] s.t = "tuple" -> tuple(s.schemas, s.message, s.validations, v, p, o)
    [] s.t = "min" -> min(s.n, s.args, v, p, o)
    [] s.t = "max" -> max(s.n, s.args, v, p, o)
    [] s.t = "or" -> or(s.schemas, v, p)
    [] s.t = "and" -> and(s.schemas, v, p)
    [] s.t = "lazy" -> lazy(s.resolveSchema, v, p)
    [] s.t = "transform" -> transform(s.schema, s.transformer, v)
    [] s.t = "not" -> not(s.schema, s.message, v, p, o)
    [] s.t = "check" -> check(s.validate, s.message, v, p)
    [] s.t = "recordEntries" -> recordEntries(s.keySchema, s.valueSchema, v, p)
    [] s.t = "mapEntries" -> mapEntries(s.keySchema, s.valueSchema, v, p)
    [] s.t = "arrayItems" -> arrayItems(s.schema, v, p)
    [] s.t = "setItems" -> setItems(s.schema, v, p)
    [] s.t = "objectFields" -> objectFields(s.fields, s.exact, v, p)
    [] s.t = "tupleItems" -> tupleItems(s.schemas, v, p)

(***************************************************************************)
(* The validator calls a validator call makes, and the exceptions of the   *)
(* engine they can end in.  No validator catches an exception.             *)
(***************************************************************************)
CallOf(s, v) == [schema |-> s, value |-> v]

\* validations.flatMap(v => v(value, path)) once the predicate of define
\* passed; nothing when it failed
DefineCalls(ok, validations, v) ==
  IF ok THEN [i \in 1..Len(validations) |-> CallOf(validations[i], v)]
  ELSE <<>>

\* a faulty child closure of array and set: the schema is called on the
\* container instead of the element
ItemCalls_onContainer(s, v) ==
  [i \in 1..Len(Items(v)) |-> CallOf(s, v)]

\* the calls of the child closure of array and of set: the schema on every
\* element
ItemCalls(s, v) ==
  [i \in 1..Len(Items(v)) |-> CallOf(s, Items(v)[i])]

\* The validator calls the call s(v, ...) makes itself, in order.
Subcalls(s, v) ==
  CASE s.t = "string" -> DefineCalls(isString(v), s.validations, v)
    [] s.t = "boolean" -> DefineCalls(isBoolean(v), s.validations, v)
    [] s.t = "number" -> DefineCalls(isNumber(v), s.validations, v)
    [] s.t = "never" -> DefineCalls(FALSE, s.validations, v)
    [] s.t = "any" -> DefineCalls(TRUE, s.validations, v)
    [] s.t = "unknown" -> DefineCalls(TRUE, s.validations, v)
    [] s.t = "nullish" -> DefineCalls(isNullish(v), s.validations, v)
    [] s.t = "literal" -> DefineCalls(StrictEquals(v, s.v), s.validations, v)
    [] s.t = "enums" -> DefineCalls(isOneOf(s.values, v), s.validations, v)
    [] s.t = "custom" ->
         DefineCalls(CustomPredicate(s.validate, v), s.validations, v)
    [] s.t = "optional" ->
         (IF v.k = "undefined" THEN <<>> ELSE <<CallOf(s.schema, v)>>)
         \o (IF Len(s.validations) = 0 THEN <<>>
             ELSE DefineCalls(v.k = "undefined" \/ Len(Call1(s.schema, v)) = 0,
                              s.validations, v))
    [] s.t = "nullable" ->
         (IF v.k = "null" THEN <<>> ELSE <<CallOf(s.schema, v)>>)
         \o (IF Len(s.validations) = 0 THEN <<>>
             ELSE DefineCalls(v.k = "null" \/ Len(Call1(s.schema, v)) = 0,
                              s.validations, v))
    [] s.t = "record" ->
         DefineCalls(isPlainObject(v),
                     <<RecordEntries(s.keySchema, s.valueSchema)>>
                     \o s.validations, v)
    [] s.t = "map" ->
         DefineCalls(isMap(v),
                     <<MapEntries(s.keySchema, s.valueSchema)>>
                     \o s.validations, v)
    [] s.t = "array" ->
         DefineCalls(isArray(v), <<ArrayItems(s.schema)>> \o s.validations, v)
    [] s.t = "set" ->
         DefineCalls(isSet(v), <<SetItems(s.schema)>> \o s.validations, v)
    [] s.t = "object" ->
         DefineCalls(isPlainObject(v),
                     <<ObjectFields(s.fields, s.exact)>> \o s.validations, v)
    [] s.t = "tuple" ->
         DefineCalls(isArray(v), <<TupleItems(s.schemas)>> \o s.validations, v)
    [] s.t = "min" ->
         DefineCalls(MinPredicate(s.n, v), RestValidations(s.args), v)
    [] s.t = "max" ->
         DefineCalls(MaxPredicate(s.n, v), RestValidations(s.args), v)
    [] s.t \in {"or", "and"} ->
         [i \in 1..Len(s.schemas) |-> CallOf(s.schemas[i], v)]
    [] s.t = "lazy" -> <<CallOf(Resolve(s.resolveSchema), v)>>
    [] s.t = "transform" ->
         <<CallOf(s.schema, ApplyTransformer(s.transformer, v))>>
    [] s.t = "not" -> <<CallOf(s.schema, v)>>
    [] s.t = "check" -> <<>>
    [] s.t = "recordEntries" ->
         Flat([i \in 1..Len(ObjectKeys(v)) |->
                 <<CallOf(s.keySchema, Str(ObjectKeys(v)[i])),
                   CallOf(s.valueSchema, Get(v, ObjectKeys(v)[i]))>>])
    [] s.t = "mapEntries" ->
         Flat([i \in 1..Len(v.keys) |->
                 <<CallOf(s.keySchema, v.keys[i]),
                   CallOf(s.valueSchema, v.vals[i])>>])
    [] s.t \in {"arrayItems", "setItems"} -> ItemCalls(s.schema, v)
    [] s.t = "objectFields" ->
         IF Len(ExtraKeys(s.fields, s.exact, v)) # 0 THEN <<>>
         ELSE [i \in 1..Len(s.fields) |->
                 CallOf(s.fields[i].schema, Get(v, s.fields[i].key))]
    [] s.t = "tupleItems" ->
         IF Len(Items(v)) # Len(s.schemas) THEN <<>>
         ELSE [i \in 1..Len(s.schemas) |-> CallOf(s.schemas[i], Items(v)[i])]

\* The operands of value >= bound are converted to numbers: the conversion of
\* a symbol raises TypeError.  An array, a string, a Map or a Set is measured
\* instead and never converted.
ComparisonRaises(v) == ~IsSized(v) /\ v.k = "symbol"

\* validations.flatMap of define: validations is the first rest argument of
\* min / max; a string has no flatMap and calling it raises TypeError.
FlatMapRaises(args) == Len(args) # 0 /\ args[1].k # "array"

\* The call s(v, ...) raises TypeError in its own body.
OwnFault(s, v) ==
  CASE s.t = "min" ->
         \/ ComparisonRaises(v)
         \/ MinPredicate(s.n, v) /\ FlatMapRaises(s.args)
    [] s.t = "max" ->
         \/ ComparisonRaises(v)
         \/ MaxPredicate(s.n, v) /\ FlatMapRaises(s.args)
    [] OTHER -> FALSE

\* The call s(v, ...) raises TypeError: in its own body or in a call it makes.
RECURSIVE Throws(_, _)
Throws(s, v) ==
  \/ OwnFault(s, v)
  \/ LET sub == Subcalls(s, v)
     IN \E i \in 1..Len(sub) : Throws(sub[i].schema, sub[i].value)

(***************************************************************************)
(* The result wrappers.                                                    *)
(***************************************************************************)
\* a faulty VError: the issues argument is not stored
VError_dropsIssues(message, issues) ==
  [name |-> "VError", message |-> message, issues |-> <<>>]

\* new VError(message, issues)
VError(message, issues) ==
  [name |-> "VError", message |-> message, issues |-> issues]

parse(s, v) ==
  LET issues == Call1(s, v)
  IN IF Len(issues) # 0
     THEN [threw |-> TRUE, error |-> VError(issues[1].message, issues)]
     ELSE [threw |-> FALSE, value |-> v]

\* a faulty safeParse: a single issue is let through as a success
safeParse_toleratesOneIssue(s, v) ==
  LET issues == Call1(s, v)
  IN IF Len(issues) > 1
     THEN [success |-> FALSE, error |-> VError(issues[1].message, issues)]
     ELSE [success |-> TRUE, data |-> v]

safeParse(s, v) ==
  LET issues == Call1(s, v)
  IN IF Len(issues) # 0
     THEN [success |-> FALSE, error |-> VError(issues[1].message, issues)]
     ELSE [success |-> TRUE, data |-> v]


(***************************************************************************)
(* The values and schemas the operations are applied to.                   *)
(***************************************************************************)
SeqsOf(S, n) == UNION {[1..m -> S] : m \in 0..n}
Injective(seq) ==
  \A i, j \in 1..Len(seq) : i # j => seq[i] # seq[j]

Prims ==
  {Undefined, Null, Bool(TRUE), Num(1), Num(42), Str("x"), Str("hello")}
Elems == {Num(1), Str("x")}
KeyNames == {"a", "b", "extra"}

Arrays == {Arr(items) : items \in SeqsOf(Elems, MaxLen)}
Sets == {SetOf(items) : items \in {q \in SeqsOf(Elems, MaxLen) : Injective(q)}}
Maps ==
  UNION {{MapOf(keys, vals) : vals \in [1..Len(keys) -> Elems]} :
           keys \in {q \in SeqsOf(Elems, MaxLen) : Injective(q)}}
Objects ==
  UNION {{Obj(keys, vals) : vals \in [1..Len(keys) -> Elems]} :
           keys \in {q \in SeqsOf(KeyNames, MaxKeys) : Injective(q)}}
\* one level of nesting: {a: {b: e}}, {a: [..]}, [{a: e}], [[..]]
Nested ==
  {Obj(<<"a">>, <<Obj(<<"b">>, <<e>>)>>) : e \in Elems}
  \cup {Obj(<<"a">>, <<arr>>) : arr \in Arrays}
  \cup {Arr(<<Obj(<<"a">>, <<e>>)>>) : e \in Elems}
  \cup {Arr(<<Num(1), Obj(<<"a", "b">>, <<e, e>>)>>) : e \in Elems}
  \cup {Arr(<<arr>>) : arr \in Arrays}

\* values of the shape {id, children: [...]}, nested d levels deep below the
\* root
RECURSIVE Trees(_)
Trees(d) ==
  LET kids == IF d = 0 THEN {<<>>}
              ELSE {<<>>} \cup {<<t>> : t \in Trees(d - 1)}
  IN {Obj(<<"id", "children">>, <<id, Arr(c)>>) : id \in Elems, c \in kids}

Values ==
  Prims \cup Arrays \cup Sets \cup Maps \cup Objects \cup Nested
SmallValues ==
  Prims \cup {Arr(<<>>), Arr(<<Str("x"), Str("x")>>), Arr(<<Num(1), Str("x")>>),
              Obj(<<"a", "b">>, <<Num(1), Num(1)>>),
              Obj(<<"a", "b">>, <<Str("x"), Str("x")>>),
              Obj(<<"a">>, <<Str("x")>>)}

string_ == MkString("", <<>>)
number_ == MkNumber("", <<>>)
boolean_ == MkBoolean("", <<>>)
ab_ == MkObject(<<Field("a", number_), Field("b", number_)>>, "", <<>>, FALSE)

\* alternatives that report zero, one or several issues
Alternatives ==
  {string_, number_, MkMin(3, <<>>), MkAnd(<<number_, boolean_>>),
   MkArray(number_, "", <<>>), ab_}
OrSchemas == {MkOr(ss) : ss \in SeqsOf(Alternatives, MaxAlts) \ {<<>>}}
AndSchemas == {MkAnd(ss) : ss \in SeqsOf(Alternatives, MaxAlts) \ {<<>>}}

Inner ==
  {string_, number_, MkString("must be text", <<>>),
   MkAnd(<<number_, boolean_>>), MkArray(number_, "", <<>>), ab_}
WrapperSchemas ==
  {MkOptional(s, "", <<>>) : s \in Inner}
  \cup {MkNullable(s, "", <<>>) : s \in Inner}
  \cup {MkNot(s, "") : s \in Inner}
  \cup {MkNot(string_, "no text"), MkNot(MkNot(string_, ""), "")}

LeafSchemas ==
  {string_, number_, boolean_, MkNever("", <<>>), MkAny("", <<>>),
   MkUnknown("", <<>>), MkNullish("", <<>>),
   MkString("must be text", <<>>), MkString("", <<MkMin(3, <<>>)>>),
   MkLiteral(Num(42), "", <<>>), MkEnums(<<Str("x"), Num(1)>>, "", <<>>),
   MkCustom("isUndefined", "Value should be undefined", <<>>),
   MkCustom("atLeast5", "Value must be higher than 5", <<number_>>),
   MkMin(2, <<>>), MkMax(1, <<>>),
   MkNumber("", <<MkCheck("atLeast5", "Too small"), MkMin(3, <<>>)>>),
   MkNumber("not a number",
            <<MkMin(3, <<>>), MkCheck("atLeast5", "Too small"),
              MkMax(1, <<>>)>>),
   MkAny("", <<MkMax(1, <<>>), string_, MkCheck("atLeast5", "Too small")>>)}

FieldLists ==
  {<<Field("a", string_)>>,
   <<Field("a", string_), Field("b", number_)>>,
   <<Field("b", number_), Field("a", number_)>>,
   <<Field("a", MkObject(<<Field("b", number_)>>, "", <<>>, FALSE))>>,
   <<Field("a", MkStrict(<<Field("b", number_)>>, "", <<>>))>>,
   <<Field("a", MkArray(number_, "", <<>>))>>,
   <<Field("a", MkOr(<<number_, boolean_>>)), Field("b", MkLazy("string"))>>,
   <<Field("a", MkAnd(<<number_, MkMin(2, <<>>)>>))>>,
   <<Field("a", MkTuple(<<number_, number_>>, "", <<>>))>>}
ObjectSchemas ==
  {MkObject(fs, "", <<>>, FALSE) : fs \in FieldLists}
  \cup {MkStrict(fs, "", <<>>) : fs \in FieldLists}

ContainerSchemas ==
  {MkArray(number_, "", <<>>), MkArray(string_, "", <<>>),
   MkArray(MkArray(number_, "", <<>>), "", <<>>),
   MkArray(MkObject(<<Field("a", number_)>>, "", <<>>, FALSE), "", <<>>),
   MkArray(MkAnd(<<string_, MkLazy("string")>>), "", <<>>),
   MkArray(number_, "not a list", <<MkMin(1, <<>>)>>),
   MkTuple(<<string_>>, "", <<MkMin(2, <<>>)>>),
   MkSet(number_, "", <<MkMax(1, <<>>)>>),
   MkMap(string_, number_, "not a map", <<MkMin(2, <<>>)>>),
   MkRecord(string_, number_, "", <<MkCheck("atLeast5", "Too small")>>),
   MkObject(<<Field("a", number_)>>, "",
            <<MkCheck("atLeast5", "Too small")>>, FALSE),
   MkStrict(<<Field("a", number_)>>, "not an object",
            <<MkCheck("atLeast5", "Too small")>>),
   MkTuple(<<>>, "", <<>>), MkTuple(<<string_>>, "", <<>>),
   MkTuple(<<string_, number_>>, "", <<>>),
   MkTuple(<<number_, ab_>>, "", <<>>),
   MkSet(number_, "", <<>>), MkSet(MkOr(<<string_, boolean_>>), "", <<>>),
   MkMap(string_, number_, "", <<>>), MkMap(number_, string_, "", <<>>),
   MkRecord(string_, number_, "", <<>>),
   MkRecord(MkEnums(<<Str("a")>>, "", <<>>), string_, "", <<>>),
   MkRecord(MkMin(2, <<>>), MkArray(number_, "", <<>>), "", <<>>),
   MkRecord(MkString("", <<MkMin(2, <<>>)>>), number_, "", <<>>),
   MkRecord(MkAnd(<<MkEnums(<<Str("a")>>, "", <<>>), MkMin(2, <<>>)>>),
            string_, "", <<>>),
   MkRecord(MkOr(<<MkEnums(<<Str("a")>>, "", <<>>), MkMin(2, <<>>)>>),
            number_, "", <<>>),
   MkRecord(MkLazy("min"), number_, "", <<>>),
   MkLazy("string"), MkLazy("arrayOfNode"),
   MkTransform(string_, "typeof"), MkTransform(MkArray(number_, "", <<>>), "wrap")}

Schemas ==
  LeafSchemas \cup WrapperSchemas \cup OrSchemas \cup AndSchemas
  \cup ObjectSchemas \cup ContainerSchemas \cup {Node}

\* the values each schema is applied to
ValuesFor(s) ==
  IF s \in OrSchemas \cup AndSchemas THEN SmallValues
  ELSE IF s = Node THEN Trees(TreeDepth) \cup {Undefined, Arr(<<>>)}
  ELSE Values

Paths == {"", "root"}
Origins == {"value", "key"}

(***************************************************************************)
(* The operations of the library, each applied to a schema and a value.     *)
(***************************************************************************)
\* The arguments of the operation are chosen; no operation has run yet.
\* raised is the exception the operation ended in, "none" when it returned.
Init ==
  /\ op = "none"
  /\ schema \in Schemas
  /\ value \in ValuesFor(schema)
  /\ path \in Paths
  /\ origin \in Origins
  /\ result = <<>>
  /\ raised = "none"
  /\ stack = <<>>
  /\ calls = <<>>

\* schema(value, path, origin)
Call ==
  /\ op = "none"
  /\ op' = "call"
  /\ IF Throws(schema, value)
     THEN raised' = "TypeError" /\ UNCHANGED result
     ELSE raised' = "none" /\ result' = Validate(schema, value, path, origin)
  /\ UNCHANGED <<schema, value, path, origin, stack, calls>>

\* The wrappers call schema(value): path and origin take their defaults.
Defaults == path = "" /\ origin = "value"

\* is(schema, value)
Is ==
  /\ op = "none"
  /\ Defaults
  /\ op' = "is"
  /\ IF Throws(schema, value)
     THEN raised' = "TypeError" /\ UNCHANGED result
     ELSE raised' = "none" /\ result' = is(schema, value)
  /\ UNCHANGED <<schema, value, path, origin, stack, calls>>

\* a faulty parse: what the transformer of a transform computed is written
\* back in the place of the value
Parse_replacesValue ==
  /\ op = "none"
  /\ Defaults
  /\ op' = "parse"
  /\ raised' = IF Throws(schema, value) THEN "TypeError"
               ELSE IF parse(schema, value).threw THEN "VError" ELSE "none"
  /\ result' = IF Throws(schema, value) THEN result
               ELSE parse(schema, value)
  /\ value' = IF schema.t = "transform"
              THEN ApplyTransformer(schema.transformer, value)
              ELSE value
  /\ UNCHANGED <<schema, path, origin, stack, calls>>

\* parse(schema, value)
Parse ==
  /\ op = "none"
  /\ Defaults
  /\ op' = "parse"
  /\ IF Throws(schema, value)
     THEN raised' = "TypeError" /\ UNCHANGED result
     ELSE /\ raised' = IF parse(schema, value).threw THEN "VError" ELSE "none"
          /\ result' = parse(schema, value)
  /\ UNCHANGED <<schema, value, path, origin, stack, calls>>

\* safeParse(schema, value)
SafeParse ==
  /\ op = "none"
  /\ Defaults
  /\ op' = "safeParse"
  /\ IF Throws(schema, value)
     THEN raised' = "TypeError" /\ UNCHANGED result
     ELSE raised' = "none" /\ result' = safeParse(schema, value)
  /\ UNCHANGED <<schema, value, path, origin, stack, calls>>

Next == Call \/ Is \/ Parse \/ SafeParse

Spec == Init /\ [][Next]_vars


(***************************************************************************)
(* The calls of one validation, one at a time.  stack holds the validator   *)
(* calls still to be made, the next one first, each with the depth of its   *)
(* frame on the call stack.  No validator catches an exception and no call  *)
(* depends on the issues an earlier one returned, apart from the            *)
(* validations of optional and nullable.                                    *)
(***************************************************************************)
\* The depth of nested validator calls at which the engine gives up with a
\* RangeError (maximum call stack size exceeded): far above the depth the
\* deepest value of the universe needs, so that only a recursion the value
\* does not bound reaches it.
StackLimit == 12 * (TreeDepth + MaxLen + 1)

\* schemas that refer to themselves through lazy
CyclicSchemas ==
  {Node, MkLazy("json"), MkLazy("pair"), MkLazy("loop"), MkLazy("orLoop"),
   MkLazy("optionalLoop"), MkLazy("notLoop"), MkLazy("wrapLoop"),
   MkAnd(<<MkString("", <<>>), MkLazy("loop")>>)}
RunSchemas ==
  CyclicSchemas \cup ContainerSchemas \cup ObjectSchemas \cup WrapperSchemas

RECURSIVE Pairs(_)
\* [n, [n, ... undefined]]: the values of the schema pair, d levels deep
Pairs(d) ==
  IF d = 0 THEN {Undefined}
  ELSE {Undefined} \cup {Arr(<<Num(1), inner>>) : inner \in Pairs(d - 1)}

RunValuesFor(s) ==
  IF s \in CyclicSchemas
  THEN Prims \cup Arrays \cup Nested \cup Trees(TreeDepth) \cup Pairs(TreeDepth)
       \cup {Obj(<<"a">>, <<Num(1)>>)}
  ELSE SmallValues \cup Nested

InitRun ==
  /\ op = "run"
  /\ schema \in RunSchemas
  /\ value \in RunValuesFor(schema)
  /\ path = ""
  /\ origin = "value"
  /\ result = [status |-> "running"]
  /\ raised = "none"
  /\ stack = <<[schema |-> schema, value |-> value, depth |-> 1]>>
  /\ calls = <<>>

\* The next call is entered: the calls it makes come before the calls that
\* wait, one frame deeper.
Enter ==
  /\ result.status = "running"
  /\ stack # <<>>
  /\ Head(stack).depth <= StackLimit
  /\ LET top == Head(stack)
         sub == Subcalls(top.schema, top.value)
     IN stack' = [i \in 1..Len(sub) |->
                    [schema |-> sub[i].schema, value |-> sub[i].value,
                     depth |-> top.depth + 1]]
                 \o Tail(stack)
  /\ UNCHANGED <<op, schema, value, path, origin, result, raised, calls>>

\* The call stack is exhausted: the RangeError unwinds every pending call and
\* reaches the caller.
Overflow ==
  /\ result.status = "running"
  /\ stack # <<>>
  /\ Head(stack).depth > StackLimit
  /\ result' = [status |-> "threw", error |-> "RangeError"]
  /\ raised' = "RangeError"
  /\ stack' = <<>>
  /\ UNCHANGED <<op, schema, value, path, origin, calls>>

\* Every call has returned: the validation returns its issue list,
\* Validate(schema, value, "", "value").
Return ==
  /\ result.status = "running"
  /\ stack = <<>>
  /\ result' = [status |-> "returned"]
  /\ UNCHANGED <<op, schema, value, path, origin, raised, stack, calls>>

NextRun == Enter \/ Overflow \/ Return

\* a call in progress ends: it returns or it throws
SpecRun ==
  /\ InitRun
  /\ [][NextRun]_vars
  /\ WF_vars(Enter)
  /\ WF_vars(Overflow)
  /\ WF_vars(Return)

(***************************************************************************)
(* Operations on any runtime value.  The same operations, applied to the    *)
(* schemas that bound a size or a magnitude and to values that hold a       *)
(* symbol.                                                                  *)
(***************************************************************************)
\* the arguments after the bound: none, (message), (message, validations),
\* (validations)
MinMaxArgs ==
  {<<>>, <<Str("Too short")>>, <<Str("Too short"), Arr(<<number_>>)>>,
   <<Arr(<<number_>>)>>, <<Arr(<<>>)>>}
MinMaxSchemas ==
  {MkMin(n, args) : n \in {1, 3}, args \in MinMaxArgs}
  \cup {MkMax(n, args) : n \in {1, 3}, args \in MinMaxArgs}
\* schemas of every constructor with a min or a max among their children
BoundedSchemas ==
  {MkString("", <<MkMin(3, <<>>)>>), MkString("", <<MkMin(3, <<Str("Too short")>>)>>),
   MkNumber("", <<MkMax(3, <<Str("Too big")>>)>>),
   MkAnd(<<string_, MkMin(3, <<>>)>>), MkOr(<<string_, MkMin(3, <<>>)>>),
   MkOptional(MkMin(3, <<>>), "", <<>>), MkNullable(MkMax(1, <<>>), "", <<>>),
   MkNot(MkMin(3, <<>>), ""),
   MkArray(MkMin(1, <<>>), "", <<>>), MkSet(MkMax(3, <<>>), "", <<>>),
   MkTuple(<<string_, MkMin(1, <<>>)>>, "", <<>>),
   MkMap(MkMin(1, <<>>), number_, "", <<>>),
   MkRecord(MkMin(1, <<>>), MkMax(3, <<>>), "", <<>>),
   MkObject(<<Field("a", MkMin(1, <<>>))>>, "", <<>>, FALSE),
   MkStrict(<<Field("a", MkMax(3, <<Str("Too big")>>))>>, "", <<>>),
   MkLazy("min"), MkTransform(MkMin(1, <<>>), "wrap"),
   MkArray(number_, "", <<MkMin(1, <<>>)>>)}
RaiseSchemas ==
  MinMaxSchemas \cup BoundedSchemas \cup LeafSchemas \cup WrapperSchemas
  \cup ContainerSchemas \cup ObjectSchemas

Sym == SymbolOf("id")
\* values that are or hold a symbol
SymbolValues ==
  {Sym, Arr(<<Sym>>), Arr(<<Str("x"), Sym>>), SetOf(<<Sym>>),
   MapOf(<<Sym>>, <<Num(1)>>), MapOf(<<Num(1)>>, <<Sym>>),
   Obj(<<"a">>, <<Sym>>), Obj(<<"a", "b">>, <<Num(1), Sym>>)}
AnyValues == Values \cup SymbolValues

InitRaise ==
  /\ op = "none"
  /\ schema \in RaiseSchemas
  /\ value \in AnyValues
  /\ path \in Paths
  /\ origin \in Origins
  /\ result = <<>>
  /\ raised = "none"
  /\ stack = <<>>
  /\ calls = <<>>

SpecRaise == InitRaise /\ [][Next]_vars

(***************************************************************************)
(* Calls one after the other.  The only assignment of the library is to     *)
(* issues, a parameter of the closure define returns: a slot of the frame   *)
(* of one call, initialised to [] at every call.  calls is the list of the  *)
(* calls made so far, each with the issue list it returned.                 *)
(***************************************************************************)
MaxCalls == 3

\* parents that share the child validator string()
SharedSchemas ==
  {string_,
   MkArray(string_, "", <<>>),
   MkObject(<<Field("a", string_), Field("b", string_)>>, "", <<>>, FALSE),
   MkOr(<<string_, MkTuple(<<string_, string_>>, "", <<>>)>>)}
RepeatValues ==
  {Str("x"), Arr(<<Num(1), Str("x")>>), Arr(<<Num(1), Num(1)>>),
   Obj(<<"a", "b">>, <<Str("x"), Num(1)>>)}

InitRepeat ==
  /\ op = "none"
  /\ schema = string_
  /\ value = Undefined
  /\ path = ""
  /\ origin = "value"
  /\ result = <<>>
  /\ raised = "none"
  /\ stack = <<>>
  /\ calls = <<>>

\* a faulty call: issues is one array shared by every call, and a call adds
\* what it found to what the calls before it left there
Repeat_sharedIssues ==
  /\ Len(calls) < MaxCalls
  /\ \E s \in SharedSchemas, v \in RepeatValues :
       LET issues == result \o Validate(s, v, "", "value")
       IN /\ schema' = s
          /\ value' = v
          /\ result' = issues
          /\ calls' = Append(calls, [schema |-> s, value |-> v,
                                     issues |-> issues])
  /\ op' = "call"
  /\ UNCHANGED <<path, origin, raised, stack>>

\* schema(value), whatever was called before
Repeat ==
  /\ Len(calls) < MaxCalls
  /\ \E s \in SharedSchemas, v \in RepeatValues :
       LET issues == Validate(s, v, "", "value")
       IN /\ schema' = s
          /\ value' = v
          /\ result' = issues
          /\ calls' = Append(calls, [schema |-> s, value |-> v,
                                     issues |-> issues])
  /\ op' = "call"
  /\ UNCHANGED <<path, origin, raised, stack>>

SpecRepeat == InitRepeat /\ [][Repeat]_vars

(***************************************************************************)
(* Properties.                                                             *)
(***************************************************************************)
\* si(v, p) for every schema of a list, in schema order
PerSchema(schemas, v, p) ==
  [i \in 1..Len(schemas) |-> Call2(schemas[i], v, p)]

\* C1: or(s1..sn)(v, p) is the empty list iff at least one si(v, p) is empty;
\* when every alternative failed it is the concatenation, in schema order, of
\* all si(v, p), whatever number of issues each alternative reports.
C1_OrPassesIffSomeAlternativePasses ==
  (op = "call" /\ schema.t = "or") =>
    LET rs == PerSchema(schema.schemas, value, path)
    IN /\ (result = <<>>) <=> (\E i \in 1..Len(rs) : rs[i] = <<>>)
       /\ (\A i \in 1..Len(rs) : rs[i] # <<>>) => result = Flat(rs)

\* C2: is(s, v) is true iff s(v) is empty; safeParse(s, v).success iff
\* parse(s, v) does not raise; and when s(v) is empty parse returns v and
\* safeParse returns {success: true, data: v}.
C2_WrappersAgreeOnValidity ==
  LET issues == Call1(schema, value)
  IN /\ op = "is" => (result <=> issues = <<>>)
     /\ op = "safeParse" =>
          /\ result.success <=> ~parse(schema, value).threw
          /\ issues = <<>> => result = [success |-> TRUE, data |-> value]
     /\ op = "parse" =>
          /\ ~result.threw <=> safeParse(schema, value).success
          /\ issues = <<>> => result = [threw |-> FALSE, value |-> value]

\* a valid object went through safeParse and came back unchanged
C2_Witness ==
  /\ op = "safeParse"
  /\ value.k = "object"
  /\ schema.t = "object"
  /\ result.success
  /\ result.data = value

\* C3: when s(v) is non-empty, parse raises and safeParse returns
\* {success: false, error} with an error named 'VError' whose message is the
\* message of the first issue and whose issues are s(v), complete and in order.
C3_ErrorCarriesAllIssues ==
  LET issues == Call1(schema, value)
      error == [name |-> "VError", message |-> issues[1].message,
                issues |-> issues]
  IN /\ (op = "parse" /\ issues # <<>>) =>
          result = [threw |-> TRUE, error |-> error]
     /\ (op = "safeParse" /\ issues # <<>>) =>
          result = [success |-> FALSE, error |-> error]

\* safeParse failed with several issues, the first message being surfaced
C3_Witness ==
  /\ op = "safeParse"
  /\ ~result.success
  /\ Len(result.error.issues) >= 2
  /\ result.error.message = result.error.issues[1].message
  /\ result.error.issues[1].message # result.error.issues[2].message

\* C4: optional(s)(undefined, p, o) is empty and optional(s)(v, p, o) is the
\* issue list s(v, p, o) for every other v; nullable likewise with null.
C4_OptionalNullableDelegate ==
  op = "call" =>
    /\ schema.t = "optional" =>
         result = IF value.k = "undefined" THEN <<>>
                  ELSE Validate(schema.schema, value, path, origin)
    /\ schema.t = "nullable" =>
         result = IF value.k = "null" THEN <<>>
                  ELSE Validate(schema.schema, value, path, origin)

\* C5: and(s1..sn)(v, p) is the concatenation of every si(v, p) in schema
\* order, a failing schema not stopping the later ones; it is empty iff every
\* si(v, p) is empty.
C5_AndConcatenatesEverySchema ==
  (op = "call" /\ schema.t = "and") =>
    LET rs == PerSchema(schema.schemas, value, path)
    IN /\ result = Flat(rs)
       /\ (result = <<>>) <=> (\A i \in 1..Len(rs) : rs[i] = <<>>)

\* both schemas of an and failed and both reported
C5_Witness ==
  /\ op = "call"
  /\ schema.t = "and"
  /\ Len(schema.schemas) = 2
  /\ Call2(schema.schemas[1], value, path) # <<>>
  /\ Call2(schema.schemas[2], value, path) # <<>>
  /\ Len(result) >= 2
  /\ result[Len(result)].expected # result[1].expected


\* The accessor of a field and of a position below the accessor prefix.
Dotted(prefix, key) == IF prefix = "" THEN key ELSE prefix \o "." \o key
Indexed(prefix, i) == prefix \o "[" \o ToString(i - 1) \o "]"

AllKeyNames == KeyNames \cup {"id", "children"}

\* Every location of a value with its accessor from the root, the root being
\* at prefix: the elements of arrays and sets and the keys and values of map
\* entries at prefix[i], the fields of objects and their key strings at
\* prefix.key, and the absent fields of an object, which read as undefined.
RECURSIVE Locations(_, _)
Locations(v, prefix) ==
  {[path |-> prefix, value |-> v]}
  \cup (IF v.k \in {"array", "set"}
        THEN UNION {Locations(v.items[i], Indexed(prefix, i)) :
                      i \in 1..Len(v.items)}
        ELSE {})
  \cup (IF v.k = "map"
        THEN UNION {Locations(v.keys[i], Indexed(prefix, i))
                    \cup Locations(v.vals[i], Indexed(prefix, i)) :
                      i \in 1..Len(v.keys)}
        ELSE {})
  \cup (IF v.k = "object"
        THEN UNION {Locations(v.vals[i], Dotted(prefix, v.keys[i]))
                    \cup {[path |-> Dotted(prefix, v.keys[i]),
                           value |-> Str(v.keys[i])]} :
                      i \in 1..Len(v.keys)}
        ELSE {})
  \cup (IF v.k \in {"object", "set", "map"}
        THEN {[path |-> Dotted(prefix, key), value |-> Undefined] :
                key \in {n \in AllKeyNames : ~Includes(ObjectKeys(v), n)}}
        ELSE {})

\* The issue is about the location: it carries the location's accessor and
\* received what is there (a tuple's length issue, the length of what is
\* there).
IssueAt(issue, loc) ==
  /\ issue.path = loc.path
  /\ IF issue.expected = "tuple" /\ "origin" \notin DOMAIN issue
     THEN loc.value.k = "array"
          /\ issue.received = Num(Len(loc.value.items))
     ELSE issue.received = loc.value

NestedAB ==
  MkObject(<<Field("a", MkObject(<<Field("b", number_)>>, "", <<>>, FALSE))>>,
           "", <<>>, FALSE)
TreeNode(id, children) == Obj(<<"id", "children">>, <<id, Arr(children)>>)
BadLeafAtDepth3 ==
  TreeNode(Num(1), <<TreeNode(Num(1), <<TreeNode(Str("x"), <<>>)>>)>>)

\* C6: every issue of a schema nested out of object, strict, array, tuple,
\* set, map, record, and, or and lazy carries the full accessor from the
\* validation root to the offending location, 'key' segments joined by '.'
\* (no leading dot at the root) and '[i]' segments for positions:
\* object({a: object({b: number()})}) on {a: {b: 'x'}} yields one issue with
\* path 'a.b', and a wrong-typed id at depth 3 of a Node tree one issue with
\* path 'children[0].children[0].id'.
C6_IssuePathIsFullAccessor ==
  (op = "call" /\ schema.t \notin {"transform", "optional", "nullable", "not"})
  =>
    /\ \A i \in 1..Len(result) :
         \E loc \in Locations(value, path) : IssueAt(result[i], loc)
    /\ (schema = NestedAB /\ value = Obj(<<"a">>, <<Obj(<<"b">>, <<Str("x")>>)>>)
        /\ path = "") =>
         (Len(result) = 1 /\ result[1].path = "a.b")
    /\ (schema = Node /\ value = BadLeafAtDepth3 /\ path = "") =>
         (Len(result) = 1 /\ result[1].path = "children[0].children[0].id")

\* the self-referential Node schema reported the wrong-typed id of a node
\* three levels deep, below a non-empty caller path
C6_Witness ==
  /\ op = "call"
  /\ schema = Node
  /\ value = BadLeafAtDepth3
  /\ path = "root"
  /\ Len(result) = 1
  /\ result[1].path = "root.children[0].children[0].id"

\* C7: strict(schema) on an object with an undeclared own key returns exactly
\* one issue, message 'Unexpected keys found: ' and the extra keys joined in
\* the value's key order, expected 'object', origin 'key', the caller's path,
\* and evaluates no field schema; without an undeclared key it returns the
\* concatenation, in declaration order, of schema[k](value[k], path.k), a
\* missing key validated as undefined; object(schema) does the same and
\* ignores undeclared keys.
C7_StrictRejectsExtraKeysFirst ==
  (op = "call" /\ schema.t = "object" /\ schema.validations = <<>>
   /\ isPlainObject(value)) =>
    LET declared == {schema.fields[i].key : i \in 1..Len(schema.fields)}
        extra == SelectSeq(ObjectKeys(value), LAMBDA key : key \notin declared)
        fields == [i \in 1..Len(schema.fields) |->
                     Call2(schema.fields[i].schema,
                           Get(value, schema.fields[i].key),
                           Dotted(path, schema.fields[i].key))]
    IN /\ IF schema.exact /\ extra # <<>>
          THEN /\ Len(result) = 1
               /\ result[1] = [message |-> "Unexpected keys found: "
                                            \o Join(extra, ", "),
                               expected |-> "object", received |-> value,
                               path |-> path, origin |-> "key"]
          ELSE result = Flat(fields)
       /\ (schema.exact /\ declared = {"a"}
           /\ ObjectKeys(value) = <<"extra", "b">>) =>
            result[1].message = "Unexpected keys found: extra, b"

\* a strict schema met a value with a declared field of the wrong type and an
\* undeclared key, and reported the undeclared key alone
C7_Witness ==
  /\ op = "call"
  /\ schema = MkStrict(<<Field("a", string_)>>, "", <<>>)
  /\ value = Obj(<<"a", "extra">>, <<Num(1), Num(1)>>)
  /\ Len(result) = 1
  /\ result[1].message = "Unexpected keys found: extra"
  /\ result[1].origin = "key"

\* C8: tuple(schemas) on an array of another length (shorter or longer)
\* returns exactly one issue with expected 'tuple' and received the actual
\* length, no element schema being evaluated; on an array of the same length
\* it returns the concatenation, in index order, of
\* schemas[i](value[i], path + '[i]').
C8_TupleLengthMismatchIsOneIssue ==
  (op = "call" /\ schema.t = "tuple" /\ schema.validations = <<>>
   /\ isArray(value)) =>
    IF Len(value.items) # Len(schema.schemas)
    THEN /\ Len(result) = 1
         /\ result[1].expected = "tuple"
         /\ result[1].received = Num(Len(value.items))
    ELSE result = Flat([i \in 1..Len(schema.schemas) |->
                          Call2(schema.schemas[i], value.items[i],
                                Indexed(path, i))])

\* tuple([string(), number()]) on ['x'] reported the length alone
C8_Witness ==
  /\ op = "call"
  /\ schema = MkTuple(<<string_, number_>>, "", <<>>)
  /\ value = Arr(<<Str("x")>>)
  /\ Len(result) = 1
  /\ result[1].expected = "tuple"
  /\ result[1].received = Num(1)

\* C9: not(s)(v, p) is empty iff s(v) is non-empty; when s(v) is empty it is
\* exactly one issue with expected 'not', received v and path p, and it
\* never contains an issue of the inner schema.
C9_NotInverts ==
  (op = "call" /\ schema.t = "not") =>
    LET inner == Call1(schema.schema, value)
    IN /\ (result = <<>>) <=> (inner # <<>>)
       /\ inner = <<>> =>
            /\ Len(result) = 1
            /\ result[1].expected = "not"
            /\ result[1].received = value
            /\ result[1].path = path
       /\ \A i \in 1..Len(result) :
            \A j \in 1..Len(Validate(schema.schema, value, path, origin)) :
              result[i] # Validate(schema.schema, value, path, origin)[j]

\* the inner schema accepted the value and not reported its single issue
C9_Witness ==
  /\ op = "call"
  /\ schema.t = "not"
  /\ Call1(schema.schema, value) = <<>>
  /\ path = "root"
  /\ Len(result) = 1
  /\ result[1].expected = "not"


\* The set of the elements of a sequence.
Range(seq) == {seq[i] : i \in 1..Len(seq)}

\* The validators a validator may call, read off its constructor.
Callees(s) ==
  CASE s.t \in {"string", "boolean", "number", "never", "any", "unknown",
               "nullish", "literal", "enums", "custom"} ->
         Range(s.validations)
    [] s.t \in {"optional", "nullable"} -> {s.schema} \cup Range(s.validations)
    [] s.t = "record" ->
         {RecordEntries(s.keySchema, s.valueSchema)} \cup Range(s.validations)
    [] s.t = "map" ->
         {MapEntries(s.keySchema, s.valueSchema)} \cup Range(s.validations)
    [] s.t = "array" -> {ArrayItems(s.schema)} \cup Range(s.validations)
    [] s.t = "set" -> {SetItems(s.schema)} \cup Range(s.validations)
    [] s.t = "object" ->
         {ObjectFields(s.fields, s.exact)} \cup Range(s.validations)
    [] s.t = "tuple" -> {TupleItems(s.schemas)} \cup Range(s.validations)
    [] s.t \in {"min", "max"} -> Range(RestValidations(s.args))
    [] s.t \in {"or", "and"} -> Range(s.schemas)
    [] s.t = "lazy" -> {Resolve(s.resolveSchema)}
    [] s.t \in {"transform", "not"} -> {s.schema}
    [] s.t \in {"recordEntries", "mapEntries"} -> {s.keySchema, s.valueSchema}
    [] s.t \in {"arrayItems", "setItems"} -> {s.schema}
    [] s.t = "objectFields" -> {s.fields[i].schema : i \in 1..Len(s.fields)}
    [] s.t = "tupleItems" -> Range(s.schemas)
    [] s.t = "check" -> {}

\* The child closures of the containers call their callees on a part of the
\* value (an element, an entry, a field); every other validator calls its
\* callees on the value it was given (transform: on what the transformer
\* makes of it).
Descends(s) ==
  s.t \in {"recordEntries", "mapEntries", "arrayItems", "setItems",
           "objectFields", "tupleItems"}

\* the callees reached without descending into the value
SameValueCallees(s) == IF Descends(s) THEN {} ELSE Callees(s)

RECURSIVE ReachSameValue(_)
ReachSameValue(S) ==
  LET more == S \cup UNION {SameValueCallees(s) : s \in S}
  IN IF more = S THEN S ELSE ReachSameValue(more)

RECURSIVE Reach(_)
Reach(S) ==
  LET more == S \cup UNION {Callees(s) : s \in S}
  IN IF more = S THEN S ELSE Reach(more)

\* Every self-reference of the schema passes through the child recursion of a
\* container, and none through a transform.
Guarded(s) ==
  \A t \in Reach({s}) :
    /\ t \notin ReachSameValue(SameValueCallees(t))
    /\ t.t = "transform" => t \notin Reach(Callees(t))

GuardedSchemas == {s \in RunSchemas : Guarded(s)}

C11_ValidatorsNeverRaise ==
  op \in {"call", "safeParse"} => raised = "none"

\* the fields of an Issue
IssueFields == {"message", "expected", "received", "path", "origin"}

\* C12: every validator call returns a sequence whose every element is an
\* Issue record carrying all five fields message, expected, received, path and
\* origin, with origin equal to 'value' or 'key'; no element is a bare boolean
\* or a record without origin.
C12_EveryIssueHasFiveFields ==
  op = "call" =>
    \A i \in 1..Len(result) :
      /\ DOMAIN result[i] = IssueFields
      /\ result[i].origin \in {"value", "key"}

\* the issues with origin set to o
WithOrigin(issues, o) ==
  [i \in 1..Len(issues) |-> [issues[i] EXCEPT !.origin = o]]

\* C13: record(keySchema, valueSchema) applied to an object validates the key
\* string of every own entry against keySchema and its value against
\* valueSchema at the same path 'parent.key'; for every key schema (a leaf, a
\* leaf with extension validations, one wrapped in and / or / lazy) every
\* issue of a key carries origin 'key', the issues of the value follow.
C13_RecordKeyIssuesHaveOriginKey ==
  (op = "call" /\ schema.t = "record" /\ isPlainObject(value)) =>
    result =
      Flat([i \in 1..Len(ObjectKeys(value)) |->
              LET key == ObjectKeys(value)[i]
                  at == Dotted(path, key)
              IN WithOrigin(Validate(schema.keySchema, Str(key), at, "key"),
                            "key")
                 \o Call2(schema.valueSchema, Get(value, key), at)])

C15_MinMaxHonourMessageAndValidations ==
  (/\ op = "call"
   /\ schema \in MinMaxSchemas
   /\ (Len(schema.args) = 0 \/ schema.args[1].k = "string")
   /\ value \in Values) =>
    LET message == IF Len(schema.args) >= 1 THEN schema.args[1].s ELSE ""
        validations == IF Len(schema.args) >= 2 THEN schema.args[2].items
                       ELSE <<>>
        default == (IF schema.t = "min" THEN "Min " ELSE "Max ")
                   \o ToString(schema.n)
        ok == IF schema.t = "min" THEN MinPredicate(schema.n, value)
              ELSE MaxPredicate(schema.n, value)
    IN /\ raised = "none"
       /\ result =
            IF ok
            THEN Flat([i \in 1..Len(validations) |->
                         Call2(validations[i], value, path)])
            ELSE <<Issue(IF message # "" THEN message ELSE default,
                         schema.t, value, path, origin)>>

\* the length of an array or a string, the cardinality of a Map or a Set, the
\* value itself as a number otherwise; undefined and plain objects convert to
\* NaN and have no measure
HasMeasure(v) == IsSized(v) \/ IsNumeric(v)
Measure(v) == IF IsSized(v) THEN Size(v) ELSE ToNumber(v)

\* C16: min(n)(v) is empty iff measure(v) >= n and max(n)(v) is empty iff
\* measure(v) <= n, measure being the length of arrays and strings, the
\* cardinality of Map and Set values and the value compared numerically
\* otherwise; a violation is exactly one issue with expected 'min' / 'max',
\* received v and the path of the caller.
C16_MinMaxCompareMeasure ==
  (op = "call" /\ schema.t \in {"min", "max"} /\ schema.args = <<>>) =>
    LET within ==
          /\ HasMeasure(value)
          /\ IF schema.t = "min" THEN Measure(value) >= schema.n
             ELSE Measure(value) <= schema.n
    IN IF within THEN result = <<>>
       ELSE /\ Len(result) = 1
            /\ result[1].expected = schema.t
            /\ result[1].received = value
            /\ result[1].path = path

\* a Map of two entries is measured by its cardinality: min(2) accepts it
C16_Witness ==
  /\ op = "call"
  /\ schema = MkMin(2, <<>>)
  /\ value.k = "map"
  /\ Len(value.keys) = 2
  /\ path = "root"
  /\ result = <<>>

StringAndMin3 == MkAnd(<<string_, MkMin(3, <<>>)>>)

\* C17 as claimed: and(string(), min(3)) applied to the number 42 returns
\* exactly two issues, one of string() and one of min(3).
C17_FortyTwoFailsStringAndMin ==
  (op = "call" /\ schema = StringAndMin3 /\ value = Num(42)) =>
    /\ Len(result) = 2
    /\ result[1].expected = "string"
    /\ result[2].expected = "min"

\* C17, amended: and(string(), min(3)) applied to the number 42 returns the
\* one issue of string(), min(3) comparing 42 >= 3 numerically; applied to
\* the number 1 it returns two issues, of string() and of min(3), in this
\* order.
C17_NumberFailsMinOnlyBelowBound ==
  (op = "call" /\ schema = StringAndMin3) =>
    /\ value = Num(42) =>
         result = <<Issue("Expected string, received number", "string",
                          Num(42), path, "value")>>
    /\ value = Num(1) =>
         result = <<Issue("Expected string, received number", "string",
                          Num(1), path, "value"),
                    Issue("Min 3", "min", Num(1), path, "value")>>

C17_Witness ==
  /\ op = "call"
  /\ schema = StringAndMin3
  /\ value = Num(42)
  /\ Len(result) = 1

\* the constructors that are define(tag, predicate) with the validations of
\* the caller
LeafTags ==
  {"string", "boolean", "number", "never", "any", "unknown", "nullish",
   "literal", "enums", "custom"}
\* the tag and the predicate of a leaf
LeafTag(s) == IF s.t = "custom" THEN "" ELSE s.t
LeafPredicate(s, v) ==
  CASE s.t = "string" -> isString(v)
    [] s.t = "boolean" -> isBoolean(v)
    [] s.t = "number" -> isNumber(v)
    [] s.t = "never" -> FALSE
    [] s.t \in {"any", "unknown"} -> TRUE
    [] s.t = "nullish" -> isNullish(v)
    [] s.t = "literal" -> StrictEquals(v, s.v)
    [] s.t = "enums" -> isOneOf(s.values, v)
    [] s.t = "custom" -> CustomPredicate(s.validate, v)
NotTrue(r) == r # Bool(TRUE)

\* C18: a validator built by define(tag, predicate)(message, validations) and
\* called with (v, path, origin) returns, when predicate(v) is false, exactly
\* one issue {message: the override if non-empty else 'Expected <tag>,
\* received <typeof v>', expected: tag, received: v, path, origin} and runs no
\* validation; when predicate(v) is true it runs every entry of validations
\* on v in insertion order, a later one also after an earlier one reported
\* issues, and returns their results concatenated in that order with every
\* entry equal to true removed: empty iff no entry contributed an issue.
C18_LeafIssueOrEveryValidation ==
  (op = "call" /\ schema.t \in LeafTags) =>
    LET validations == schema.validations
        runs == [i \in 1..Len(validations) |->
                   Call2(validations[i], value, path)]
    IN IF ~LeafPredicate(schema, value)
       THEN /\ result =
                 <<[message |-> IF schema.message # "" THEN schema.message
                                ELSE "Expected " \o LeafTag(schema)
                                     \o ", received " \o typeof(value),
                    expected |-> LeafTag(schema), received |-> value,
                    path |-> path, origin |-> origin]>>
            /\ Subcalls(schema, value) = <<>>
       ELSE /\ result = SelectSeq(Flat(runs), NotTrue)
            /\ Subcalls(schema, value) =
                 [i \in 1..Len(validations) |-> CallOf(validations[i], value)]
            /\ (result = <<>>) <=>
                 \A i \in 1..Len(validations) :
                   SelectSeq(runs[i], NotTrue) = <<>>

\* number() with the validations min(3), a check of the user and max(1), on
\* 42: min passes, the check returns true, and max, the last, still reports
C18_Witness ==
  /\ op = "call"
  /\ schema = MkNumber("not a number",
                       <<MkMin(3, <<>>), MkCheck("atLeast5", "Too small"),
                         MkMax(1, <<>>)>>)
  /\ value = Num(42)
  /\ path = "root"
  /\ result = <<Issue("Max 1", "max", Num(42), "root", "value")>>

\* C19: transform(schema, f)(v, p) equals schema(f(v), p): the inner schema
\* sees f(v) at the same path p, so that the issues of a transform nested in
\* a container carry the full path from the root; parse and safeParse of a
\* valid v return v itself, not f(v).
C19_TransformDelegatesAtSamePath ==
  schema.t = "transform" =>
    LET seen == ApplyTransformer(schema.transformer, value)
    IN /\ op = "call" => result = Call2(schema.schema, seen, path)
       /\ (op = "parse" /\ ~result.threw) => result.value = value
       /\ (op = "safeParse" /\ result.success) => result.data = value

ContainerTags == {"array", "tuple", "set", "map", "object", "record"}
\* the shape predicate of a container
ShapePredicate(s, v) ==
  CASE s.t \in {"array", "tuple"} -> isArray(v)
    [] s.t = "set" -> isSet(v)
    [] s.t = "map" -> isMap(v)
    [] s.t \in {"object", "record"} -> isPlainObject(v)
\* the closure of a container that recurses into the value
ChildClosure(s) ==
  CASE s.t = "array" -> ArrayItems(s.schema)
    [] s.t = "tuple" -> TupleItems(s.schemas)
    [] s.t = "set" -> SetItems(s.schema)
    [] s.t = "map" -> MapEntries(s.keySchema, s.valueSchema)
    [] s.t = "object" -> ObjectFields(s.fields, s.exact)
    [] s.t = "record" -> RecordEntries(s.keySchema, s.valueSchema)

\* C20: for each of array, tuple, set, map, object, strict and record, a value
\* that fails the shape predicate of the container (array / tuple: not an
\* array; set: not a Set; map: not a Map; object / strict / record: null, an
\* array or a non-object) gives exactly one issue with the tag of the
\* container as expected, the value as received and the path of the caller,
\* and neither a child schema nor a validation of the user is evaluated; on a
\* value of the right shape the child recursion runs first and the
\* validations of the user after it, their issues appended.
C20_ShapeFailureStopsRecursion ==
  (op = "call" /\ schema.t \in ContainerTags) =>
    LET validations == schema.validations
        child == ChildClosure(schema)
    IN IF ~ShapePredicate(schema, value)
       THEN /\ Len(result) = 1
            /\ result[1].expected = schema.t
            /\ result[1].received = value
            /\ result[1].path = path
            /\ Subcalls(schema, value) = <<>>
       ELSE /\ result =
                 SelectSeq(Call2(child, value, path)
                           \o Flat([i \in 1..Len(validations) |->
                                      Call2(validations[i], value, path)]),
                           NotTrue)
            /\ Subcalls(schema, value) =
                 <<CallOf(child, value)>>
                 \o [i \in 1..Len(validations) |->
                       CallOf(validations[i], value)]

\* a strict schema with a validation of the user is called on an array: the
\* shape issue alone
C20_Witness ==
  /\ op = "call"
  /\ schema.t = "object"
  /\ schema.exact
  /\ schema.validations # <<>>
  /\ value.k = "array"
  /\ Len(result) = 1

\* C21: a validation call s(v, path, origin), and with it is, parse and
\* safeParse, leaves the value (its fields, elements and entries at every
\* depth) and the configuration of the schema (child validators, message,
\* validations) as they were; what the transformer of a transform computes
\* never replaces the value: parse and safeParse hand back the value they
\* were given.
C21_ValueAndSchemaUnchanged ==
  /\ [][value' = value /\ schema' = schema]_vars
  /\ []((op = "parse" /\ raised = "none") => result.value = value)
  /\ []((op = "safeParse" /\ raised = "none" /\ result.success)
          => result.data = value)

\* parse of transform(array(number()), v => [v]) on a number: the inner schema
\* saw [1], the caller gets 1 back
C21_Witness ==
  /\ op = "parse"
  /\ schema = MkTransform(MkArray(number_, "", <<>>), "wrap")
  /\ value = Num(1)
  /\ raised = "none"
  /\ result = [threw |-> FALSE, value |-> Num(1)]

====
